---------------------------- MODULE Spec2Model ----------------------------
(***************************************************************************)
(* Model of src/country.rs: the country Id enumeration with its two        *)
(* conversions (FromStr, AsRef<str>), the calling-code carrier Code and    *)
(* its derivation Source.                                                  *)
(*                                                                         *)
(* A str is a sequence of one-character strings, so that a conversion is   *)
(* computed character by character.  An Id is the variant itself, written  *)
(* "Id::XX", which is a different value from its text <<"X", "X">>.        *)
(*                                                                         *)
(* The state is one existing value (obj) and the record of the last call   *)
(* made on it (ret).                                                       *)
(***************************************************************************)
EXTENDS Integers, Sequences, FiniteSets, TLC

VARIABLES obj, ret

vars == <<obj, ret>>

(***************************************************************************)
(* Bounds of the model.                                                    *)
(***************************************************************************)
\* Every uppercase word of at most this many letters is an input of from_str.
MaxTextLen == 2

\* Code values range over 0..ValueSpan, 33 and (65535 - ValueSpan)..65535.
ValueSpan == 8

\* Number of buckets of the lossy hasher a caller may pass to Hash::hash.
HashBuckets == 2

(***************************************************************************)
(* Characters and strings.                                                 *)
(***************************************************************************)
Upper ==
  <<"A", "B", "C", "D", "E", "F", "G", "H", "I", "J", "K", "L", "M",
    "N", "O", "P", "Q", "R", "S", "T", "U", "V", "W", "X", "Y", "Z">>

Lower ==
  <<"a", "b", "c", "d", "e", "f", "g", "h", "i", "j", "k", "l", "m",
    "n", "o", "p", "q", "r", "s", "t", "u", "v", "w", "x", "y", "z">>

Range(f) == {f[i] : i \in DOMAIN f}

UpperChars == Range(Upper)

LowerChars == Range(Lower)

OtherChars == {" ", "0", "_"}

Alphabet == UpperChars \cup LowerChars \cup OtherChars

is_uppercase(ch) == ch \in UpperChars

to_ascii_lowercase(ch) ==
  IF ch \in UpperChars
    THEN Lower[CHOOSE i \in DOMAIN Upper : Upper[i] = ch]
    ELSE ch

to_ascii_uppercase(ch) ==
  IF ch \in LowerChars
    THEN Upper[CHOOSE i \in DOMAIN Lower : Lower[i] = ch]
    ELSE ch

(***************************************************************************)
(* Result<T, error::Parse>.                                                *)
(***************************************************************************)
Ok(v) == [ok |-> TRUE, val |-> v]

Err(e) == [ok |-> FALSE, err |-> e]

\* The index of the first arm of a match whose pattern (column col) equals x,
\* or 0 when no arm matches.
FirstArm(arms, col, x) ==
  LET hits == {i \in DOMAIN arms : arms[i][col] = x}
  IN  IF hits = {} THEN 0 ELSE CHOOSE i \in hits : \A j \in hits : i <= j

(***************************************************************************)
(* pub enum Id: the variants in declaration order.                         *)
(***************************************************************************)
IdVariants ==
  <<
    "Id::AC", "Id::AD", "Id::AE", "Id::AF",
    "Id::AG", "Id::AI", "Id::AL", "Id::AM",
    "Id::AO", "Id::AR", "Id::AS", "Id::AT",
    "Id::AU", "Id::AW", "Id::AX", "Id::AZ",
    "Id::BA", "Id::BB", "Id::BD", "Id::BE",
    "Id::BF", "Id::BG", "Id::BH", "Id::BI",
    "Id::BJ", "Id::BL", "Id::BM", "Id::BN",
    "Id::BO", "Id::BQ", "Id::BR", "Id::BS",
    "Id::BT", "Id::BW", "Id::BY", "Id::BZ",
    "Id::CA", "Id::CC", "Id::CD", "Id::CF",
    "Id::CG", "Id::CH", "Id::CI", "Id::CK",
    "Id::CL", "Id::CM", "Id::CN", "Id::CO",
    "Id::CR", "Id::CU", "Id::CV", "Id::CW",
    "Id::CX", "Id::CY", "Id::CZ", "Id::DE",
    "Id::DJ", "Id::DK", "Id::DM", "Id::DO",
    "Id::DZ", "Id::EC", "Id::EE", "Id::EG",
    "Id::EH", "Id::ER", "Id::ES", "Id::ET",
    "Id::FI", "Id::FJ", "Id::FK", "Id::FM",
    "Id::FO", "Id::FR", "Id::GA", "Id::GB",
    "Id::GD", "Id::GE", "Id::GF", "Id::GG",
    "Id::GH", "Id::GI", "Id::GL", "Id::GM",
    "Id::GN", "Id::GP", "Id::GQ", "Id::GR",
    "Id::GT", "Id::GU", "Id::GW", "Id::GY",
    "Id::HK", "Id::HN", "Id::HR", "Id::HT",
    "Id::HU", "Id::ID", "Id::IE", "Id::IL",
    "Id::IM", "Id::IN", "Id::IO", "Id::IQ",
    "Id::IR", "Id::IS", "Id::IT", "Id::JE",
    "Id::JM", "Id::JO", "Id::JP", "Id::KE",
    "Id::KG", "Id::KH", "Id::KI", "Id::KM",
    "Id::KN", "Id::KP", "Id::KR", "Id::KW",
    "Id::KY", "Id::KZ", "Id::LA", "Id::LB",
    "Id::LC", "Id::LI", "Id::LK", "Id::LR",
    "Id::LS", "Id::LT", "Id::LU", "Id::LV",
    "Id::LY", "Id::MA", "Id::MC", "Id::MD",
    "Id::ME", "Id::MF", "Id::MG", "Id::MH",
    "Id::MK", "Id::ML", "Id::MM", "Id::MN",
    "Id::MO", "Id::MP", "Id::MQ", "Id::MR",
    "Id::MS", "Id::MT", "Id::MU", "Id::MV",
    "Id::MW", "Id::MX", "Id::MY", "Id::MZ",
    "Id::NA", "Id::NC", "Id::NE", "Id::NF",
    "Id::NG", "Id::NI", "Id::NL", "Id::NO",
    "Id::NP", "Id::NR", "Id::NU", "Id::NZ",
    "Id::OM", "Id::PA", "Id::PE", "Id::PF",
    "Id::PG", "Id::PH", "Id::PK", "Id::PL",
    "Id::PM", "Id::PR", "Id::PS", "Id::PT",
    "Id::PW", "Id::PY", "Id::QA", "Id::RE",
    "Id::RO", "Id::RS", "Id::RU", "Id::RW",
    "Id::SA", "Id::SB", "Id::SC", "Id::SD",
    "Id::SE", "Id::SG", "Id::SH", "Id::SI",
    "Id::SJ", "Id::SK", "Id::SL", "Id::SM",
    "Id::SN", "Id::SO", "Id::SR", "Id::SS",
    "Id::ST", "Id::SV", "Id::SX", "Id::SY",
    "Id::SZ", "Id::TA", "Id::TC", "Id::TD",
    "Id::TG", "Id::TH", "Id::TJ", "Id::TK",
    "Id::TL", "Id::TM", "Id::TN", "Id::TO",
    "Id::TR", "Id::TT", "Id::TV", "Id::TW",
    "Id::TZ", "Id::UA", "Id::UG", "Id::US",
    "Id::UY", "Id::UZ", "Id::VA", "Id::VC",
    "Id::VE", "Id::VG", "Id::VI", "Id::VN",
    "Id::VU", "Id::WF", "Id::WS", "Id::XK",
    "Id::YE", "Id::YT", "Id::ZA", "Id::ZM",
    "Id::ZW"
  >>

Id == Range(IdVariants)

(***************************************************************************)
(* impl str::FromStr for Id: the arms of the match, pattern and result,    *)
(* in source order; the final arm `_` is the Err of from_str below.        *)
(***************************************************************************)
FromStrArms ==
  <<
    <<<<"A", "C">>, "Id::AC">>, <<<<"A", "D">>, "Id::AD">>, <<<<"A", "E">>, "Id::AE">>, <<<<"A", "F">>, "Id::AF">>,
    <<<<"A", "G">>, "Id::AG">>, <<<<"A", "I">>, "Id::AI">>, <<<<"A", "L">>, "Id::AL">>, <<<<"A", "M">>, "Id::AM">>,
    <<<<"A", "O">>, "Id::AO">>, <<<<"A", "R">>, "Id::AR">>, <<<<"A", "S">>, "Id::AS">>, <<<<"A", "T">>, "Id::AT">>,
    <<<<"A", "U">>, "Id::AU">>, <<<<"A", "W">>, "Id::AW">>, <<<<"A", "X">>, "Id::AX">>, <<<<"A", "Z">>, "Id::AZ">>,
    <<<<"B", "A">>, "Id::BA">>, <<<<"B", "B">>, "Id::BB">>, <<<<"B", "D">>, "Id::BD">>, <<<<"B", "E">>, "Id::BE">>,
    <<<<"B", "F">>, "Id::BF">>, <<<<"B", "G">>, "Id::BG">>, <<<<"B", "H">>, "Id::BH">>, <<<<"B", "I">>, "Id::BI">>,
    <<<<"B", "J">>, "Id::BJ">>, <<<<"B", "L">>, "Id::BL">>, <<<<"B", "M">>, "Id::BM">>, <<<<"B", "N">>, "Id::BN">>,
    <<<<"B", "O">>, "Id::BO">>, <<<<"B", "Q">>, "Id::BQ">>, <<<<"B", "R">>, "Id::BR">>, <<<<"B", "S">>, "Id::BS">>,
    <<<<"B", "T">>, "Id::BT">>, <<<<"B", "W">>, "Id::BW">>, <<<<"B", "Y">>, "Id::BY">>, <<<<"B", "Z">>, "Id::BZ">>,
    <<<<"C", "A">>, "Id::CA">>, <<<<"C", "C">>, "Id::CC">>, <<<<"C", "D">>, "Id::CD">>, <<<<"C", "F">>, "Id::CF">>,
    <<<<"C", "G">>, "Id::CG">>, <<<<"C", "H">>, "Id::CH">>, <<<<"C", "I">>, "Id::CI">>, <<<<"C", "K">>, "Id::CK">>,
    <<<<"C", "L">>, "Id::CL">>, <<<<"C", "M">>, "Id::CM">>, <<<<"C", "N">>, "Id::CN">>, <<<<"C", "O">>, "Id::CO">>,
    <<<<"C", "R">>, "Id::CR">>, <<<<"C", "U">>, "Id::CU">>, <<<<"C", "V">>, "Id::CV">>, <<<<"C", "W">>, "Id::CW">>,
    <<<<"C", "X">>, "Id::CX">>, <<<<"C", "Y">>, "Id::CY">>, <<<<"C", "Z">>, "Id::CZ">>, <<<<"D", "E">>, "Id::DE">>,
    <<<<"D", "J">>, "Id::DJ">>, <<<<"D", "K">>, "Id::DK">>, <<<<"D", "M">>, "Id::DM">>, <<<<"D", "O">>, "Id::DO">>,
    <<<<"D", "Z">>, "Id::DZ">>, <<<<"E", "C">>, "Id::EC">>, <<<<"E", "E">>, "Id::EE">>, <<<<"E", "G">>, "Id::EG">>,
    <<<<"E", "H">>, "Id::EH">>, <<<<"E", "R">>, "Id::ER">>, <<<<"E", "S">>, "Id::ES">>, <<<<"E", "T">>, "Id::ET">>,
    <<<<"F", "I">>, "Id::FI">>, <<<<"F", "J">>, "Id::FJ">>, <<<<"F", "K">>, "Id::FK">>, <<<<"F", "M">>, "Id::FM">>,
    <<<<"F", "O">>, "Id::FO">>, <<<<"F", "R">>, "Id::FR">>, <<<<"G", "A">>, "Id::GA">>, <<<<"G", "B">>, "Id::GB">>,
    <<<<"G", "D">>, "Id::GD">>, <<<<"G", "E">>, "Id::GE">>, <<<<"G", "F">>, "Id::GF">>, <<<<"G", "G">>, "Id::GG">>,
    <<<<"G", "H">>, "Id::GH">>, <<<<"G", "I">>, "Id::GI">>, <<<<"G", "L">>, "Id::GL">>, <<<<"G", "M">>, "Id::GM">>,
    <<<<"G", "N">>, "Id::GN">>, <<<<"G", "P">>, "Id::GP">>, <<<<"G", "Q">>, "Id::GQ">>, <<<<"G", "R">>, "Id::GR">>,
    <<<<"G", "T">>, "Id::GT">>, <<<<"G", "U">>, "Id::GU">>, <<<<"G", "W">>, "Id::GW">>, <<<<"G", "Y">>, "Id::GY">>,
    <<<<"H", "K">>, "Id::HK">>, <<<<"H", "N">>, "Id::HN">>, <<<<"H", "R">>, "Id::HR">>, <<<<"H", "T">>, "Id::HT">>,
    <<<<"H", "U">>, "Id::HU">>, <<<<"I", "D">>, "Id::ID">>, <<<<"I", "E">>, "Id::IE">>, <<<<"I", "L">>, "Id::IL">>,
    <<<<"I", "M">>, "Id::IM">>, <<<<"I", "N">>, "Id::IN">>, <<<<"I", "O">>, "Id::IO">>, <<<<"I", "Q">>, "Id::IQ">>,
    <<<<"I", "R">>, "Id::IR">>, <<<<"I", "S">>, "Id::IS">>, <<<<"I", "T">>, "Id::IT">>, <<<<"J", "E">>, "Id::JE">>,
    <<<<"J", "M">>, "Id::JM">>, <<<<"J", "O">>, "Id::JO">>, <<<<"J", "P">>, "Id::JP">>, <<<<"K", "E">>, "Id::KE">>,
    <<<<"K", "G">>, "Id::KG">>, <<<<"K", "H">>, "Id::KH">>, <<<<"K", "I">>, "Id::KI">>, <<<<"K", "M">>, "Id::KM">>,
    <<<<"K", "N">>, "Id::KN">>, <<<<"K", "P">>, "Id::KP">>, <<<<"K", "R">>, "Id::KR">>, <<<<"K", "W">>, "Id::KW">>,
    <<<<"K", "Y">>, "Id::KY">>, <<<<"K", "Z">>, "Id::KZ">>, <<<<"L", "A">>, "Id::LA">>, <<<<"L", "B">>, "Id::LB">>,
    <<<<"L", "C">>, "Id::LC">>, <<<<"L", "I">>, "Id::LI">>, <<<<"L", "K">>, "Id::LK">>, <<<<"L", "R">>, "Id::LR">>,
    <<<<"L", "S">>, "Id::LS">>, <<<<"L", "T">>, "Id::LT">>, <<<<"L", "U">>, "Id::LU">>, <<<<"L", "V">>, "Id::LV">>,
    <<<<"L", "Y">>, "Id::LY">>, <<<<"M", "A">>, "Id::MA">>, <<<<"M", "C">>, "Id::MC">>, <<<<"M", "D">>, "Id::MD">>,
    <<<<"M", "E">>, "Id::ME">>, <<<<"M", "F">>, "Id::MF">>, <<<<"M", "G">>, "Id::MG">>, <<<<"M", "H">>, "Id::MH">>,
    <<<<"M", "K">>, "Id::MK">>, <<<<"M", "L">>, "Id::ML">>, <<<<"M", "M">>, "Id::MM">>, <<<<"M", "N">>, "Id::MN">>,
    <<<<"M", "O">>, "Id::MO">>, <<<<"M", "P">>, "Id::MP">>, <<<<"M", "Q">>, "Id::MQ">>, <<<<"M", "R">>, "Id::MR">>,
    <<<<"M", "S">>, "Id::MS">>, <<<<"M", "T">>, "Id::MT">>, <<<<"M", "U">>, "Id::MU">>, <<<<"M", "V">>, "Id::MV">>,
    <<<<"M", "W">>, "Id::MW">>, <<<<"M", "X">>, "Id::MX">>, <<<<"M", "Y">>, "Id::MY">>, <<<<"M", "Z">>, "Id::MZ">>,
    <<<<"N", "A">>, "Id::NA">>, <<<<"N", "C">>, "Id::NC">>, <<<<"N", "E">>, "Id::NE">>, <<<<"N", "F">>, "Id::NF">>,
    <<<<"N", "G">>, "Id::NG">>, <<<<"N", "I">>, "Id::NI">>, <<<<"N", "L">>, "Id::NL">>, <<<<"N", "O">>, "Id::NO">>,
    <<<<"N", "P">>, "Id::NP">>, <<<<"N", "R">>, "Id::NR">>, <<<<"N", "U">>, "Id::NU">>, <<<<"N", "Z">>, "Id::NZ">>,
    <<<<"O", "M">>, "Id::OM">>, <<<<"P", "A">>, "Id::PA">>, <<<<"P", "E">>, "Id::PE">>, <<<<"P", "F">>, "Id::PF">>,
    <<<<"P", "G">>, "Id::PG">>, <<<<"P", "H">>, "Id::PH">>, <<<<"P", "K">>, "Id::PK">>, <<<<"P", "L">>, "Id::PL">>,
    <<<<"P", "M">>, "Id::PM">>, <<<<"P", "R">>, "Id::PR">>, <<<<"P", "S">>, "Id::PS">>, <<<<"P", "T">>, "Id::PT">>,
    <<<<"P", "W">>, "Id::PW">>, <<<<"P", "Y">>, "Id::PY">>, <<<<"Q", "A">>, "Id::QA">>, <<<<"R", "E">>, "Id::RE">>,
    <<<<"R", "O">>, "Id::RO">>, <<<<"R", "S">>, "Id::RS">>, <<<<"R", "U">>, "Id::RU">>, <<<<"R", "W">>, "Id::RW">>,
    <<<<"S", "A">>, "Id::SA">>, <<<<"S", "B">>, "Id::SB">>, <<<<"S", "C">>, "Id::SC">>, <<<<"S", "D">>, "Id::SD">>,
    <<<<"S", "E">>, "Id::SE">>, <<<<"S", "G">>, "Id::SG">>, <<<<"S", "H">>, "Id::SH">>, <<<<"S", "I">>, "Id::SI">>,
    <<<<"S", "J">>, "Id::SJ">>, <<<<"S", "K">>, "Id::SK">>, <<<<"S", "L">>, "Id::SL">>, <<<<"S", "M">>, "Id::SM">>,
    <<<<"S", "N">>, "Id::SN">>, <<<<"S", "O">>, "Id::SO">>, <<<<"S", "R">>, "Id::SR">>, <<<<"S", "S">>, "Id::SS">>,
    <<<<"S", "T">>, "Id::ST">>, <<<<"S", "V">>, "Id::SV">>, <<<<"S", "X">>, "Id::SX">>, <<<<"S", "Y">>, "Id::SY">>,
    <<<<"S", "Z">>, "Id::SZ">>, <<<<"T", "A">>, "Id::TA">>, <<<<"T", "C">>, "Id::TC">>, <<<<"T", "D">>, "Id::TD">>,
    <<<<"T", "G">>, "Id::TG">>, <<<<"T", "H">>, "Id::TH">>, <<<<"T", "J">>, "Id::TJ">>, <<<<"T", "K">>, "Id::TK">>,
    <<<<"T", "L">>, "Id::TL">>, <<<<"T", "M">>, "Id::TM">>, <<<<"T", "N">>, "Id::TN">>, <<<<"T", "O">>, "Id::TO">>,
    <<<<"T", "R">>, "Id::TR">>, <<<<"T", "T">>, "Id::TT">>, <<<<"T", "V">>, "Id::TV">>, <<<<"T", "W">>, "Id::TW">>,
    <<<<"T", "Z">>, "Id::TZ">>, <<<<"U", "A">>, "Id::UA">>, <<<<"U", "G">>, "Id::UG">>, <<<<"U", "S">>, "Id::US">>,
    <<<<"U", "Y">>, "Id::UY">>, <<<<"U", "Z">>, "Id::UZ">>, <<<<"V", "A">>, "Id::VA">>, <<<<"V", "C">>, "Id::VC">>,
    <<<<"V", "E">>, "Id::VE">>, <<<<"V", "G">>, "Id::VG">>, <<<<"V", "I">>, "Id::VI">>, <<<<"V", "N">>, "Id::VN">>,
    <<<<"V", "U">>, "Id::VU">>, <<<<"W", "F">>, "Id::WF">>, <<<<"W", "S">>, "Id::WS">>, <<<<"X", "K">>, "Id::XK">>,
    <<<<"Y", "E">>, "Id::YE">>, <<<<"Y", "T">>, "Id::YT">>, <<<<"Z", "A">>, "Id::ZA">>, <<<<"Z", "M">>, "Id::ZM">>,
    <<<<"Z", "W">>, "Id::ZW">>
  >>

\* from_str with one arm naming the variant of its neighbour.
from_str_slip(value) ==
  LET i == FirstArm(FromStrArms, 1, value)
  IN  IF i = 0 THEN Err("InvalidCountryCode")
      ELSE IF value = <<"A", "X">> THEN Ok("Id::AZ")
      ELSE Ok(FromStrArms[i][2])

\* from_str matching without regard to ASCII case.
from_str_nocase(value) ==
  LET up == [k \in DOMAIN value |-> to_ascii_uppercase(value[k])]
      i  == FirstArm(FromStrArms, 1, up)
  IN  IF i = 0 THEN Err("InvalidCountryCode") ELSE Ok(FromStrArms[i][2])

\* from_str with an error that carries the rejected text.
from_str_with_text(value) ==
  LET i == FirstArm(FromStrArms, 1, value)
  IN  IF i = 0 THEN Err(<<"InvalidCountryCode", value>>) ELSE Ok(FromStrArms[i][2])

from_str(value) ==
  LET i == FirstArm(FromStrArms, 1, value)
  IN  IF i = 0 THEN Err("InvalidCountryCode") ELSE Ok(FromStrArms[i][2])

(***************************************************************************)
(* impl AsRef<str> for Id: the arms of the match, variant and text, in     *)
(* source order.  The match has no `_` arm; NoArm stands for a variant     *)
(* that no arm covers.                                                     *)
(***************************************************************************)
AsRefArms ==
  <<
    <<"Id::AC", <<"A", "C">>>>, <<"Id::AD", <<"A", "D">>>>, <<"Id::AE", <<"A", "E">>>>, <<"Id::AF", <<"A", "F">>>>,
    <<"Id::AG", <<"A", "G">>>>, <<"Id::AI", <<"A", "I">>>>, <<"Id::AL", <<"A", "L">>>>, <<"Id::AM", <<"A", "M">>>>,
    <<"Id::AO", <<"A", "O">>>>, <<"Id::AR", <<"A", "R">>>>, <<"Id::AS", <<"A", "S">>>>, <<"Id::AT", <<"A", "T">>>>,
    <<"Id::AU", <<"A", "U">>>>, <<"Id::AW", <<"A", "W">>>>, <<"Id::AX", <<"A", "X">>>>, <<"Id::AZ", <<"A", "Z">>>>,
    <<"Id::BA", <<"B", "A">>>>, <<"Id::BB", <<"B", "B">>>>, <<"Id::BD", <<"B", "D">>>>, <<"Id::BE", <<"B", "E">>>>,
    <<"Id::BF", <<"B", "F">>>>, <<"Id::BG", <<"B", "G">>>>, <<"Id::BH", <<"B", "H">>>>, <<"Id::BI", <<"B", "I">>>>,
    <<"Id::BJ", <<"B", "J">>>>, <<"Id::BL", <<"B", "L">>>>, <<"Id::BM", <<"B", "M">>>>, <<"Id::BN", <<"B", "N">>>>,
    <<"Id::BO", <<"B", "O">>>>, <<"Id::BQ", <<"B", "Q">>>>, <<"Id::BR", <<"B", "R">>>>, <<"Id::BS", <<"B", "S">>>>,
    <<"Id::BT", <<"B", "T">>>>, <<"Id::BW", <<"B", "W">>>>, <<"Id::BY", <<"B", "Y">>>>, <<"Id::BZ", <<"B", "Z">>>>,
    <<"Id::CA", <<"C", "A">>>>, <<"Id::CC", <<"C", "C">>>>, <<"Id::CD", <<"C", "D">>>>, <<"Id::CF", <<"C", "F">>>>,
    <<"Id::CG", <<"C", "G">>>>, <<"Id::CH", <<"C", "H">>>>, <<"Id::CI", <<"C", "I">>>>, <<"Id::CK", <<"C", "K">>>>,
    <<"Id::CL", <<"C", "L">>>>, <<"Id::CM", <<"C", "M">>>>, <<"Id::CN", <<"C", "N">>>>, <<"Id::CO", <<"C", "O">>>>,
    <<"Id::CR", <<"C", "R">>>>, <<"Id::CU", <<"C", "U">>>>, <<"Id::CV", <<"C", "V">>>>, <<"Id::CW", <<"C", "W">>>>,
    <<"Id::CX", <<"C", "X">>>>, <<"Id::CY", <<"C", "Y">>>>, <<"Id::CZ", <<"C", "Z">>>>, <<"Id::DE", <<"D", "E">>>>,
    <<"Id::DJ", <<"D", "J">>>>, <<"Id::DK", <<"D", "K">>>>, <<"Id::DM", <<"D", "M">>>>, <<"Id::DO", <<"D", "O">>>>,
    <<"Id::DZ", <<"D", "Z">>>>, <<"Id::EC", <<"E", "C">>>>, <<"Id::EE", <<"E", "E">>>>, <<"Id::EG", <<"E", "G">>>>,
    <<"Id::EH", <<"E", "H">>>>, <<"Id::ER", <<"E", "R">>>>, <<"Id::ES", <<"E", "S">>>>, <<"Id::ET", <<"E", "T">>>>,
    <<"Id::FI", <<"F", "I">>>>, <<"Id::FJ", <<"F", "J">>>>, <<"Id::FK", <<"F", "K">>>>, <<"Id::FM", <<"F", "M">>>>,
    <<"Id::FO", <<"F", "O">>>>, <<"Id::FR", <<"F", "R">>>>, <<"Id::GA", <<"G", "A">>>>, <<"Id::GB", <<"G", "B">>>>,
    <<"Id::GD", <<"G", "D">>>>, <<"Id::GE", <<"G", "E">>>>, <<"Id::GF", <<"G", "F">>>>, <<"Id::GG", <<"G", "G">>>>,
    <<"Id::GH", <<"G", "H">>>>, <<"Id::GI", <<"G", "I">>>>, <<"Id::GL", <<"G", "L">>>>, <<"Id::GM", <<"G", "M">>>>,
    <<"Id::GN", <<"G", "N">>>>, <<"Id::GP", <<"G", "P">>>>, <<"Id::GQ", <<"G", "Q">>>>, <<"Id::GR", <<"G", "R">>>>,
    <<"Id::GT", <<"G", "T">>>>, <<"Id::GU", <<"G", "U">>>>, <<"Id::GW", <<"G", "W">>>>, <<"Id::GY", <<"G", "Y">>>>,
    <<"Id::HK", <<"H", "K">>>>, <<"Id::HN", <<"H", "N">>>>, <<"Id::HR", <<"H", "R">>>>, <<"Id::HT", <<"H", "T">>>>,
    <<"Id::HU", <<"H", "U">>>>, <<"Id::ID", <<"I", "D">>>>, <<"Id::IE", <<"I", "E">>>>, <<"Id::IL", <<"I", "L">>>>,
    <<"Id::IM", <<"I", "M">>>>, <<"Id::IN", <<"I", "N">>>>, <<"Id::IO", <<"I", "O">>>>, <<"Id::IQ", <<"I", "Q">>>>,
    <<"Id::IR", <<"I", "R">>>>, <<"Id::IS", <<"I", "S">>>>, <<"Id::IT", <<"I", "T">>>>, <<"Id::JE", <<"J", "E">>>>,
    <<"Id::JM", <<"J", "M">>>>, <<"Id::JO", <<"J", "O">>>>, <<"Id::JP", <<"J", "P">>>>, <<"Id::KE", <<"K", "E">>>>,
    <<"Id::KG", <<"K", "G">>>>, <<"Id::KH", <<"K", "H">>>>, <<"Id::KI", <<"K", "I">>>>, <<"Id::KM", <<"K", "M">>>>,
    <<"Id::KN", <<"K", "N">>>>, <<"Id::KP", <<"K", "P">>>>, <<"Id::KR", <<"K", "R">>>>, <<"Id::KW", <<"K", "W">>>>,
    <<"Id::KY", <<"K", "Y">>>>, <<"Id::KZ", <<"K", "Z">>>>, <<"Id::LA", <<"L", "A">>>>, <<"Id::LB", <<"L", "B">>>>,
    <<"Id::LC", <<"L", "C">>>>, <<"Id::LI", <<"L", "I">>>>, <<"Id::LK", <<"L", "K">>>>, <<"Id::LR", <<"L", "R">>>>,
    <<"Id::LS", <<"L", "S">>>>, <<"Id::LT", <<"L", "T">>>>, <<"Id::LU", <<"L", "U">>>>, <<"Id::LV", <<"L", "V">>>>,
    <<"Id::LY", <<"L", "Y">>>>, <<"Id::MA", <<"M", "A">>>>, <<"Id::MC", <<"M", "C">>>>, <<"Id::MD", <<"M", "D">>>>,
    <<"Id::ME", <<"M", "E">>>>, <<"Id::MF", <<"M", "F">>>>, <<"Id::MG", <<"M", "G">>>>, <<"Id::MH", <<"M", "H">>>>,
    <<"Id::MK", <<"M", "K">>>>, <<"Id::ML", <<"M", "L">>>>, <<"Id::MM", <<"M", "M">>>>, <<"Id::MN", <<"M", "N">>>>,
    <<"Id::MO", <<"M", "O">>>>, <<"Id::MP", <<"M", "P">>>>, <<"Id::MQ", <<"M", "Q">>>>, <<"Id::MR", <<"M", "R">>>>,
    <<"Id::MS", <<"M", "S">>>>, <<"Id::MT", <<"M", "T">>>>, <<"Id::MU", <<"M", "U">>>>, <<"Id::MV", <<"M", "V">>>>,
    <<"Id::MW", <<"M", "W">>>>, <<"Id::MX", <<"M", "X">>>>, <<"Id::MY", <<"M", "Y">>>>, <<"Id::MZ", <<"M", "Z">>>>,
    <<"Id::NA", <<"N", "A">>>>, <<"Id::NC", <<"N", "C">>>>, <<"Id::NE", <<"N", "E">>>>, <<"Id::NF", <<"N", "F">>>>,
    <<"Id::NG", <<"N", "G">>>>, <<"Id::NI", <<"N", "I">>>>, <<"Id::NL", <<"N", "L">>>>, <<"Id::NO", <<"N", "O">>>>,
    <<"Id::NP", <<"N", "P">>>>, <<"Id::NR", <<"N", "R">>>>, <<"Id::NU", <<"N", "U">>>>, <<"Id::NZ", <<"N", "Z">>>>,
    <<"Id::OM", <<"O", "M">>>>, <<"Id::PA", <<"P", "A">>>>, <<"Id::PE", <<"P", "E">>>>, <<"Id::PF", <<"P", "F">>>>,
    <<"Id::PG", <<"P", "G">>>>, <<"Id::PH", <<"P", "H">>>>, <<"Id::PK", <<"P", "K">>>>, <<"Id::PL", <<"P", "L">>>>,
    <<"Id::PM", <<"P", "M">>>>, <<"Id::PR", <<"P", "R">>>>, <<"Id::PS", <<"P", "S">>>>, <<"Id::PT", <<"P", "T">>>>,
    <<"Id::PW", <<"P", "W">>>>, <<"Id::PY", <<"P", "Y">>>>, <<"Id::QA", <<"Q", "A">>>>, <<"Id::RE", <<"R", "E">>>>,
    <<"Id::RO", <<"R", "O">>>>, <<"Id::RS", <<"R", "S">>>>, <<"Id::RU", <<"R", "U">>>>, <<"Id::RW", <<"R", "W">>>>,
    <<"Id::SA", <<"S", "A">>>>, <<"Id::SB", <<"S", "B">>>>, <<"Id::SC", <<"S", "C">>>>, <<"Id::SD", <<"S", "D">>>>,
    <<"Id::SE", <<"S", "E">>>>, <<"Id::SG", <<"S", "G">>>>, <<"Id::SH", <<"S", "H">>>>, <<"Id::SI", <<"S", "I">>>>,
    <<"Id::SJ", <<"S", "J">>>>, <<"Id::SK", <<"S", "K">>>>, <<"Id::SL", <<"S", "L">>>>, <<"Id::SM", <<"S", "M">>>>,
    <<"Id::SN", <<"S", "N">>>>, <<"Id::SO", <<"S", "O">>>>, <<"Id::SR", <<"S", "R">>>>, <<"Id::SS", <<"S", "S">>>>,
    <<"Id::ST", <<"S", "T">>>>, <<"Id::SV", <<"S", "V">>>>, <<"Id::SX", <<"S", "X">>>>, <<"Id::SY", <<"S", "Y">>>>,
    <<"Id::SZ", <<"S", "Z">>>>, <<"Id::TA", <<"T", "A">>>>, <<"Id::TC", <<"T", "C">>>>, <<"Id::TD", <<"T", "D">>>>,
    <<"Id::TG", <<"T", "G">>>>, <<"Id::TH", <<"T", "H">>>>, <<"Id::TJ", <<"T", "J">>>>, <<"Id::TK", <<"T", "K">>>>,
    <<"Id::TL", <<"T", "L">>>>, <<"Id::TM", <<"T", "M">>>>, <<"Id::TN", <<"T", "N">>>>, <<"Id::TO", <<"T", "O">>>>,
    <<"Id::TR", <<"T", "R">>>>, <<"Id::TT", <<"T", "T">>>>, <<"Id::TV", <<"T", "V">>>>, <<"Id::TW", <<"T", "W">>>>,
    <<"Id::TZ", <<"T", "Z">>>>, <<"Id::UA", <<"U", "A">>>>, <<"Id::UG", <<"U", "G">>>>, <<"Id::US", <<"U", "S">>>>,
    <<"Id::UY", <<"U", "Y">>>>, <<"Id::UZ", <<"U", "Z">>>>, <<"Id::VA", <<"V", "A">>>>, <<"Id::VC", <<"V", "C">>>>,
    <<"Id::VE", <<"V", "E">>>>, <<"Id::VG", <<"V", "G">>>>, <<"Id::VI", <<"V", "I">>>>, <<"Id::VN", <<"V", "N">>>>,
    <<"Id::VU", <<"V", "U">>>>, <<"Id::WF", <<"W", "F">>>>, <<"Id::WS", <<"W", "S">>>>, <<"Id::XK", <<"X", "K">>>>,
    <<"Id::YE", <<"Y", "E">>>>, <<"Id::YT", <<"Y", "T">>>>, <<"Id::ZA", <<"Z", "A">>>>, <<"Id::ZM", <<"Z", "M">>>>,
    <<"Id::ZW", <<"Z", "W">>>>
  >>

NoArm == <<"!">>

\* as_ref with one arm giving the text of its neighbour.
as_ref_slip(id) ==
  LET i == FirstArm(AsRefArms, 1, id)
  IN  IF i = 0 THEN NoArm
      ELSE IF id = "Id::AX" THEN <<"A", "Z">>
      ELSE AsRefArms[i][2]

as_ref(id) ==
  LET i == FirstArm(AsRefArms, 1, id)
  IN  IF i = 0 THEN NoArm ELSE AsRefArms[i][2]

(***************************************************************************)
(* pub enum Source, #[serde(rename_all = "snake_case")]: the variants in   *)
(* declaration order, each with its identifier as written in the source.   *)
(***************************************************************************)
SourceVariants ==
  << <<"Source::Plus",    <<"P", "l", "u", "s">> >>,
     <<"Source::Idd",     <<"I", "d", "d">> >>,
     <<"Source::Number",  <<"N", "u", "m", "b", "e", "r">> >>,
     <<"Source::Default", <<"D", "e", "f", "a", "u", "l", "t">> >> >>

Source == {SourceVariants[i][1] : i \in DOMAIN SourceVariants}

\* The identifier of a variant.
VariantIdent(s) == SourceVariants[FirstArm(SourceVariants, 1, s)][2]

\* The discriminant of a variant: its position in the declaration, from 0.
Discriminant(s) == FirstArm(SourceVariants, 1, s) - 1

\* The first variant as the default.
Source_default_first == "Source::Plus"

\* impl Default for Source
Source_default == "Source::Default"

\* serde's snake_case renaming of a variant identifier: an underscore before
\* every uppercase character but the first, every character in lowercase.
\* No renaming: the identifier as written.
snake_case_none(ident) == ident

RECURSIVE snake_case_from(_, _)
snake_case_from(ident, i) ==
  IF i > Len(ident)
    THEN <<>>
    ELSE (IF i > 1 /\ is_uppercase(ident[i]) THEN <<"_">> ELSE <<>>)
           \o <<to_ascii_lowercase(ident[i])>>
           \o snake_case_from(ident, i + 1)

snake_case(ident) == snake_case_from(ident, 1)

\* derive(Serialize): a unit variant is written as its renamed name.
Source_serialize(s) == snake_case(VariantIdent(s))

\* derive(Deserialize): the variant whose renamed name is the given name,
\* an unknown-variant error for any other name.
Source_deserialize(name) ==
  LET hits == {i \in DOMAIN SourceVariants : snake_case(SourceVariants[i][2]) = name}
  IN  IF hits = {}
        THEN Err("unknown_variant")
        ELSE Ok(SourceVariants[CHOOSE i \in hits : \A j \in hits : i <= j][1])

\* derive(PartialEq) for Source: the discriminants are compared.
Source_eq(a, b) == Discriminant(a) = Discriminant(b)

(***************************************************************************)
(* pub struct Code { value: u16, source: Source }                          *)
(***************************************************************************)
U16Max == 65535

U16 == 0..U16Max

CodeValues == (0..ValueSpan) \cup {33} \cup ((U16Max - ValueSpan)..U16Max)

Code == [value : CodeValues, source : Source]

\* value() that clamps to the three digits of an assigned calling code.
Code_value_clamped(self) == IF self.value > 999 THEN 999 ELSE self.value

\* Code::value
Code_value(self) == self.value

\* Code::source
Code_source(self) == self.source

\* The conversion narrowing to eight bits.
u16_from_u8(code) == code.value % 256

\* impl From<Code> for u16
u16_from(code) == code.value

\* Equality on the value alone.
Code_eq_value_only(a, b) == a.value = b.value

\* derive(PartialEq) for Code: field by field, in declaration order.
Code_eq(a, b) == a.value = b.value /\ Source_eq(a.source, b.source)

(***************************************************************************)
(* derive(Hash).  Hash::hash<H: Hasher>(&self, state: &mut H) writes the   *)
(* fields to a hasher the caller chooses.  Two hashers stand for that      *)
(* choice: "collect" keeps every word written to it (its finish is         *)
(* injective), "buckets" adds the words up modulo HashBuckets.             *)
(***************************************************************************)
Hashers == {"collect", "buckets"}

Hasher_new(kind) == [kind |-> kind, words |-> <<>>, acc |-> 0]

Hasher_write(state, ty, word) ==
  IF state.kind = "collect"
    THEN [state EXCEPT !.words = Append(@, <<ty, word>>)]
    ELSE [state EXCEPT !.acc = (@ + word) % HashBuckets]

Hasher_finish(state) ==
  IF state.kind = "collect" THEN state.words ELSE <<state.acc>>

\* derive(Hash) for Source: the discriminant, as an isize.
Source_hash(self, state) == Hasher_write(state, "isize", Discriminant(self))

\* Hashing the value alone.
Code_hash_value_only(self, state) == Hasher_write(state, "u16", self.value)

\* derive(Hash) for Code: value, then source.
Code_hash(self, state) ==
  Source_hash(self.source, Hasher_write(state, "u16", self.value))

(***************************************************************************)
(* Inputs.                                                                 *)
(***************************************************************************)
\* Every uppercase word of at most MaxTextLen letters: "", "A", .., "ZZ".
UpperWords == UNION {[1..n -> UpperChars] : n \in 0..MaxTextLen}

FromStrPatterns == {FromStrArms[i][1] : i \in DOMAIN FromStrArms}

\* Every spelling of s that differs from it in the case of letters only.
CaseForms(s) ==
  {[i \in DOMAIN s |->
      IF i \in low THEN to_ascii_lowercase(s[i]) ELSE to_ascii_uppercase(s[i])] :
     low \in SUBSET DOMAIN s}

\* The strings of S with one more character in front or at the end.
Padded(S) ==
  {<<ch>> \o s : ch \in Alphabet, s \in S} \cup {s \o <<ch>> : ch \in Alphabet, s \in S}

IdTextInputs ==
  UpperWords
    \cup UNION {CaseForms(p) : p \in FromStrPatterns}
    \cup Padded(FromStrPatterns)

SourceIdents == {SourceVariants[i][2] : i \in DOMAIN SourceVariants}

SourceNameInputs ==
  UNION {CaseForms(snake_case(n)) : n \in SourceIdents}
    \cup Padded({snake_case(n) : n \in SourceIdents})

StrInputs == IdTextInputs \cup SourceNameInputs

IdObj(t) == [kind |-> "Id", v |-> t]

StrObj(s) == [kind |-> "str", v |-> s]

CodeObj(c) == [kind |-> "Code", v |-> c]

\* Two Codes, for the calls that take two.
CodesObj(c, d) == [kind |-> "Codes", v |-> c, other |-> d]

SourceObj(s) == [kind |-> "Source", v |-> s]

NoCall == [op |-> "none", arg |-> <<>>, res |-> <<>>]

Call(op, arg, res) == [op |-> op, arg |-> arg, res |-> res]

Init ==
  /\ \/ \E t \in Id : obj = IdObj(t)
     \/ \E s \in StrInputs : obj = StrObj(s)
     \/ \E c \in Code : obj = CodeObj(c)
     \/ \E c \in Code, d \in Code : obj = CodesObj(c, d)
     \/ \E s \in Source : obj = SourceObj(s)
  /\ ret = NoCall

(***************************************************************************)
(* Calls on an Id and on a str.                                            *)
(***************************************************************************)
\* id.as_ref()
AsRef ==
  /\ obj.kind = "Id"
  /\ ret' = Call("as_ref", obj.v, as_ref(obj.v))
  /\ UNCHANGED obj

\* value.parse::<Id>(), i.e. Id::from_str(value)
FromStr ==
  /\ obj.kind = "str"
  /\ ret' = Call("from_str", obj.v, from_str(obj.v))
  /\ UNCHANGED obj

\* Id::from_str(id.as_ref()): the text just returned by as_ref is parsed.
FromStrOfAsRef ==
  /\ obj.kind = "Id"
  /\ ret.op = "as_ref"
  /\ ret' = Call("from_str", ret.res, from_str(ret.res))
  /\ UNCHANGED obj

\* Id::from_str(value)?.as_ref(): the Id just parsed is turned into text.
AsRefOfParsed ==
  /\ obj.kind = "str"
  /\ ret.op = "from_str"
  /\ ret.res.ok
  /\ ret' = Call("as_ref", ret.res.val, as_ref(ret.res.val))
  /\ UNCHANGED obj

(***************************************************************************)
(* Calls on a Code.                                                        *)
(***************************************************************************)
\* value() that takes the value out of the Code and leaves 0 behind.
Value_taking ==
  /\ obj.kind = "Code"
  /\ ret' = Call("value", obj.v, Code_value(obj.v))
  /\ obj' = [obj EXCEPT !.v.value = 0]

\* code.value()
Value ==
  /\ obj.kind = "Code"
  /\ ret' = Call("value", obj.v, Code_value(obj.v))
  /\ UNCHANGED obj

\* code.source()
SourceOf ==
  /\ obj.kind = "Code"
  /\ ret' = Call("source", obj.v, Code_source(obj.v))
  /\ UNCHANGED obj

\* u16::from(code)
IntoU16 ==
  /\ obj.kind = "Code"
  /\ ret' = Call("u16::from", obj.v, u16_from(obj.v))
  /\ UNCHANGED obj

\* code == other
Eq ==
  /\ obj.kind = "Codes"
  /\ ret' = Call("eq", <<obj.v, obj.other>>, Code_eq(obj.v, obj.other))
  /\ UNCHANGED obj

\* code and other are each hashed with a fresh hasher of the same kind.
Hash ==
  /\ obj.kind = "Codes"
  /\ \E h \in Hashers :
       ret' = Call("hash", h,
                   <<Hasher_finish(Code_hash(obj.v, Hasher_new(h))),
                     Hasher_finish(Code_hash(obj.other, Hasher_new(h)))>>)
  /\ UNCHANGED obj

(***************************************************************************)
(* Calls on a Source.                                                      *)
(***************************************************************************)
\* Source::default()
SourceDefault ==
  /\ obj.kind = "Source"
  /\ ret' = Call("Source::default", <<>>, Source_default)
  /\ UNCHANGED obj

\* source is serialized.
Serialize ==
  /\ obj.kind = "Source"
  /\ ret' = Call("serialize", obj.v, Source_serialize(obj.v))
  /\ UNCHANGED obj

\* A Source is deserialized from a name.
Deserialize ==
  /\ obj.kind = "str"
  /\ ret' = Call("deserialize", obj.v, Source_deserialize(obj.v))
  /\ UNCHANGED obj

\* The name just serialized is deserialized.
DeserializeSerialized ==
  /\ obj.kind = "Source"
  /\ ret.op = "serialize"
  /\ ret' = Call("deserialize", ret.res, Source_deserialize(ret.res))
  /\ UNCHANGED obj

Next ==
  \/ AsRef
  \/ FromStr
  \/ FromStrOfAsRef
  \/ AsRefOfParsed
  \/ Value
  \/ SourceOf
  \/ IntoU16
  \/ Eq
  \/ Hash
  \/ SourceDefault
  \/ Serialize
  \/ Deserialize
  \/ DeserializeSerialized

Spec == Init /\ [][Next]_vars

(***************************************************************************)
(* Properties.                                                             *)
(***************************************************************************)
\* The texts as_ref gives, over the whole enumeration.
CanonicalTexts == {as_ref(t) : t \in Id}

\* C1: round trip.  Parsing the text that as_ref gives for a variant returns
\* Ok of that same variant, for every variant of Id.
C1_RoundTrip ==
  (obj.kind = "Id" /\ ret.op = "from_str") =>
    /\ ret.arg = as_ref(obj.v)
    /\ ret.res = Ok(obj.v)

C1_Witness ==
  /\ obj.kind = "Id"
  /\ obj.v = "Id::FR"
  /\ ret.op = "from_str"
  /\ ret.arg = <<"F", "R">>
  /\ ret.res.ok
  /\ ret.res.val = "Id::FR"

\* s in uppercase.
Uppercased(s) == [i \in DOMAIN s |-> to_ascii_uppercase(s[i])]

\* s without its last character.
Front(s) == SubSeq(s, 1, Len(s) - 1)

\* A spelling close to a canonical text: the text in another case, or the
\* text with one more character in front of it or after it.
NearMiss(s) ==
  \/ s # Uppercased(s) /\ Uppercased(s) \in CanonicalTexts
  \/ s # <<>> /\ (Tail(s) \in CanonicalTexts \/ Front(s) \in CanonicalTexts)

\* The rejected texts the specification names: "", "us", "fr", "USA", "ZZ"
\* and the retired codes "AN", "CS", "YU".
RejectedExamples ==
  { <<>>, <<"u", "s">>, <<"f", "r">>, <<"U", "S", "A">>, <<"Z", "Z">>,
    <<"A", "N">>, <<"C", "S">>, <<"Y", "U">> }

\* C2: from_str succeeds exactly on the texts as_ref gives, compared as they
\* are; on every other text it returns Err(InvalidCountryCode), in particular
\* on the named examples, on other-case spellings and on padded codes.
C2_FromStrExact ==
  ret.op = "from_str" =>
    /\ ret.res.ok <=> ret.arg \in CanonicalTexts
    /\ ret.res.ok => as_ref(ret.res.val) = ret.arg
    /\ ~ret.res.ok => ret.res = Err("InvalidCountryCode")
    /\ (ret.arg \in RejectedExamples \/ NearMiss(ret.arg)) => ~ret.res.ok

C2_Witness ==
  /\ obj.kind = "str"
  /\ obj.v = <<"f", "r">>
  /\ ret.op = "from_str"
  /\ ~ret.res.ok
  /\ ret.res.err = "InvalidCountryCode"

\* C3: as_ref is total and injective.  Every variant has an arm, its text is
\* two uppercase ASCII letters, and no other variant has the same text.
C3_AsRefTotalInjective ==
  ret.op = "as_ref" =>
    /\ ret.arg \in Id
    /\ ret.res # NoArm
    /\ Len(ret.res) = 2
    /\ \A i \in DOMAIN ret.res : ret.res[i] \in UpperChars
    /\ \A t \in Id \ {ret.arg} : as_ref(t) # ret.res

C3_Witness ==
  /\ obj.kind = "Id"
  /\ obj.v = "Id::XK"
  /\ ret.op = "as_ref"
  /\ ret.res = <<"X", "K">>

\* C4: two Codes are equal exactly when both their values and their sources
\* are equal.
C4_EqBothFields ==
  ret.op = "eq" =>
    ret.res = (obj.v.value = obj.other.value /\ obj.v.source = obj.other.source)

C4_Witness ==
  /\ obj.kind = "Codes"
  /\ obj.v = [value |-> 33, source |-> "Source::Plus"]
  /\ obj.other = [value |-> 33, source |-> "Source::Default"]
  /\ ret.op = "eq"
  /\ ret.res = FALSE

\* C5, as stated: under the same hasher, equal Codes hash identically and
\* Codes of one value and different sources hash differently.
C5_HashDiffersAnyHasher ==
  ret.op = "hash" =>
    /\ obj.v = obj.other => ret.res[1] = ret.res[2]
    /\ (obj.v.value = obj.other.value /\ obj.v.source # obj.other.source)
         => ret.res[1] # ret.res[2]

\* C5, amended: under the same hasher, equal Codes hash identically; Codes
\* of one value and different sources write different words to the hasher,
\* so that they hash differently under a hasher that loses nothing.
C5_HashFeedsBothFields ==
  ret.op = "hash" =>
    /\ obj.v = obj.other => ret.res[1] = ret.res[2]
    /\ (obj.v.value = obj.other.value /\ obj.v.source # obj.other.source
          /\ ret.arg = "collect")
         => ret.res[1] # ret.res[2]

C5_Witness ==
  /\ obj.kind = "Codes"
  /\ obj.v = [value |-> 33, source |-> "Source::Plus"]
  /\ obj.other = [value |-> 33, source |-> "Source::Default"]
  /\ ret.op = "hash"
  /\ ret.arg = "collect"
  /\ ret.res[1] # ret.res[2]

\* C6: the conversion to u16 gives the stored value, unchanged, whatever the
\* source of the Code.
C6_NarrowingIsValue ==
  ret.op = "u16::from" =>
    /\ ret.res \in U16
    /\ ret.res = obj.v.value
    /\ \A s \in Source : u16_from([obj.v EXCEPT !.source = s]) = ret.res

C6_Witness ==
  /\ obj.kind = "Code"
  /\ obj.v = [value |-> 33, source |-> "Source::Idd"]
  /\ ret.op = "u16::from"
  /\ ret.res = 33

\* C7: the default Source is Default, none of Plus, Idd, Number.
C7_DefaultSource ==
  ret.op = "Source::default" =>
    /\ ret.res = "Source::Default"
    /\ ret.res \notin {"Source::Plus", "Source::Idd", "Source::Number"}

C7_Witness ==
  /\ obj.kind = "Source"
  /\ ret.op = "Source::default"
  /\ ret.res = "Source::Default"

\* The serialized name the specification gives for each Source.
WireName(s) ==
  CASE s = "Source::Plus"    -> <<"p", "l", "u", "s">>
    [] s = "Source::Idd"     -> <<"i", "d", "d">>
    [] s = "Source::Number"  -> <<"n", "u", "m", "b", "e", "r">>
    [] s = "Source::Default" -> <<"d", "e", "f", "a", "u", "l", "t">>

WireNames == {WireName(s) : s \in Source}

\* C8: Source has exactly four values, serialized as plus, idd, number and
\* default; the names are pairwise distinct, a serialized name deserializes
\* to the value it came from, and no other name deserializes to a Source.
C8_SourceNames ==
  /\ Cardinality(Source) = 4
  /\ ret.op = "serialize" =>
       /\ ret.res = WireName(obj.v)
       /\ \A s \in Source \ {obj.v} : Source_serialize(s) # ret.res
  /\ (ret.op = "deserialize" /\ obj.kind = "Source") => ret.res = Ok(obj.v)
  /\ ret.op = "deserialize" =>
       /\ ret.res.ok <=> ret.arg \in WireNames
       /\ ret.res.ok => ret.res.val \in Source /\ WireName(ret.res.val) = ret.arg

C8_Witness ==
  /\ obj.kind = "Source"
  /\ obj.v = "Source::Default"
  /\ ret.op = "deserialize"
  /\ ret.arg = <<"d", "e", "f", "a", "u", "l", "t">>
  /\ ret.res.ok
  /\ ret.res.val = "Source::Default"

\* C9: a Code carries any u16 value with any source, and its accessors give
\* back exactly the two fields: value() the value, source() the source.
C9_TransparentCarrier ==
  /\ obj.kind = "Code" => obj.v.value \in U16 /\ obj.v.source \in Source
  /\ ret.op = "value" => ret.res \in U16 /\ ret.res = obj.v.value
  /\ ret.op = "source" => ret.res \in Source /\ ret.res = obj.v.source

C9_Witness ==
  /\ obj.kind = "Code"
  /\ obj.v = [value |-> 0, source |-> "Source::Number"]
  /\ ret.op = "value"
  /\ ret.res = 0

\* C10: from_str ends in Ok of one variant of Id or in the one error
\* InvalidCountryCode, which carries nothing of the rejected text; as_ref,
\* value(), source() and the conversion to u16 return plain values.
C10_OnlyInvalidCountryCode ==
  /\ ret.op = "from_str" =>
       IF ret.res.ok
         THEN DOMAIN ret.res = {"ok", "val"} /\ ret.res.val \in Id
         ELSE DOMAIN ret.res = {"ok", "err"} /\ ret.res.err = "InvalidCountryCode"
  /\ ret.op = "as_ref" => ret.res \in CanonicalTexts /\ ret.res # NoArm
  /\ ret.op \in {"value", "u16::from"} => ret.res \in U16
  /\ ret.op = "source" => ret.res \in Source

C10_Witness ==
  /\ obj.kind = "str"
  /\ obj.v = <<>>
  /\ ret.op = "from_str"
  /\ ~ret.res.ok
  /\ ret.res.err = "InvalidCountryCode"

\* C11: immutability and purity.  No call of value(), source(), the
\* conversion to u16, as_ref, from_str or any other operation changes the
\* value it is made on: a Code keeps its (value, source) pair and an Id its
\* variant, whatever calls came before; and a call repeated on the same
\* argument returns what it returned before.
C11_ImmutablePure ==
  [][ /\ obj' = obj
      /\ (ret'.op = ret.op /\ ret'.arg = ret.arg) => ret'.res = ret.res ]_vars

\* A str after two calls in a row, from_str and then as_ref on the Id parsed.
C11_Witness ==
  /\ obj.kind = "str"
  /\ obj.v = <<"F", "R">>
  /\ ret.op = "as_ref"
  /\ ret.arg = "Id::FR"
  /\ ret.res = <<"F", "R">>

=============================================================================
